---- MODULE Spec2Model ----
(***************************************************************************)
(* Model of the fetch orchestrator of scripts/smart_downloader.py: the     *)
(* item worker (download_worker / download_single_sra), the existence      *)
(* prober (check_existing_files, verify_and_clean_downloads) and the       *)
(* download strategies, over the files of one item's output directory.     *)
(*                                                                         *)
(* A file is named by its suffix after the accession id ("_1.fastq.gz" is  *)
(* <id>_1.fastq.gz) and holds one of the content classes                   *)
(*   "absent"  the path does not exist                                     *)
(*   "empty"   the file exists with size 0                                 *)
(*   "invalid" non-empty, rejected by is_valid_fastq_file                  *)
(*   "valid"   non-empty, accepted by is_valid_fastq_file                  *)
(*   "text"    the marker / scratch file's text                            *)
(* External tools (prefetch, fasterq-dump, curl, fastq-dump, amalgkit) are *)
(* inputs: their exit status and the files they leave are chosen with \E.  *)
(*                                                                         *)
(* The specifications share the variables:                                 *)
(*   Spec           one item worker over one item directory                *)
(*   SpecValidator  one call of is_valid_fastq_file on one file            *)
(*   SpecLayout     one call of get_layout_from_metadata on one table      *)
(*   SpecMain       main: input checks, the thread pool, counters, exit    *)
(*   SpecProbe      one call of check_existing_files on one directory      *)
(*   SpecMainLive   SpecMain with a worker that may block, and fairness    *)
(*   SpecSanity     amalgkit sanity: parse_metadata, check_quant_output    *)
(*   SpecCurate     amalgkit curate: write_updated_metadata, called twice  *)
(* Each leaves the variables of the others at their idle values.           *)
(***************************************************************************)
EXTENDS Integers, Sequences, FiniteSets, TLC

VARIABLES
    srr_id,       \* the accession id, a sequence of characters
    is_paired,    \* get_layout_from_metadata's result: "True", "False", "None"
    force,        \* args.force
    disk,         \* the item directory: file name -> content class
    pc,           \* the worker's position
    outcome,      \* download_worker's result tag ("none" while running)
    attempts,     \* history: the strategies invoked in this run, in order
    startedClean, \* history: no data or temporary file was on disk at run start
    provisional,  \* history: the amalgkit step wrote the marker before verifying
    hadValid,     \* history: a complete valid file set was on disk at run start
    run,          \* number of the current run over the same output root
    prev,         \* outcome of the previous run ("none" in the first run)
    file,         \* is_valid_fastq_file: the file at file_path
    valid,        \* is_valid_fastq_file: how the call ended ("none" before it)
    metadata,     \* get_layout_from_metadata: the table in the metadata file
    layout,       \* get_layout_from_metadata: how the call ended ("none" before it)
    mpc,             \* main's position
    id_list_exists,  \* os.path.exists(args.id_list)
    metadata_exists, \* os.path.exists(args.metadata)
    out_dir,         \* the output root: "absent", "uncreatable", "writable",
                     \* "fixable" (chmod succeeds), "unwritable" (chmod fails)
    srr_ids,         \* the identifiers of the ID list, in file order
    max_concurrent,  \* args.max_concurrent
    future,          \* per list position: the state of the submitted task
    collected,       \* the list positions whose future as_completed has yielded
    counters,        \* successful, skipped, failed, completed
    summary,         \* download_summary.txt: <<>> (not written) or the counts written
    exit_code,       \* the process exit status; -1 while main runs
    p_in,            \* check_existing_files: the item directory at the call
    p_paired,        \* check_existing_files: the paired argument
    p_disk,          \* check_existing_files: the item directory after the call
    p_ret,           \* check_existing_files: "True", "False"; "none" before the call
    tool_pc,         \* sanity_main / curate_main: the position of the run
    df,              \* metadata.df: the rows of the metadata table
    quant_dir,       \* <out_dir>/quant: whether it exists, and its sub-directories
    parsed,          \* parse_metadata: how the call ended
    data_available,  \* check_quant_output: the first list returned
    data_unavailable, \* check_quant_output: the second list returned
    outpath          \* <out_dir>/curate/metadata.tsv: whether it exists, its rows

\* the item worker's variables
wvars == <<srr_id, is_paired, force, disk, pc, outcome, attempts, startedClean,
           provisional, hadValid, run, prev>>

\* the validator's variables
vvars == <<file, valid>>

\* the layout resolver's variables
lvars == <<metadata, layout>>

\* main's variables
mvars == <<mpc, id_list_exists, metadata_exists, out_dir, srr_ids, max_concurrent,
           future, collected, counters, summary, exit_code>>

\* the existence prober's variables
pvars == <<p_in, p_paired, p_disk, p_ret>>

\* the variables of the sanity and curate commands
tvars == <<tool_pc, df, quant_dir, parsed, data_available, data_unavailable, outpath>>

vars == <<wvars, vvars, lvars, mvars, pvars, tvars>>

\* the variables the item worker leaves alone
not_worker == <<vvars, lvars, mvars, pvars, tvars>>

\* Number of runs of the pipeline over the same output root.
MaxRuns == 2

----------------------------------------------------------------------------
\* File names and contents

MARKER == ".completed"
TEMP_ID == ".id"
TEMP_NCBI == ".temp"
TEMP_SRA == ".sra"

\* file_pairs of verify_and_clean_downloads
file_pairs ==
    << <<"_1.fastq.gz", "_2.fastq.gz">>, <<"_1.fastq", "_2.fastq">>,
       <<".1.fastq.gz", ".2.fastq.gz">>, <<".1.fastq", ".2.fastq">>,
       <<"_1.fq.gz", "_2.fq.gz">>, <<"_1.fq", "_2.fq">> >>

\* single_files of verify_and_clean_downloads
single_files == <<".fastq.gz", ".fastq", ".fq.gz", ".fq">>

\* patterns of check_existing_files, paired branch
patterns_paired ==
    << <<"_1.fastq.gz", "_2.fastq.gz">>, <<"_1.fastq", "_2.fastq">>,
       <<".1.fastq.gz", ".2.fastq.gz">>, <<".1.fastq", ".2.fastq">>,
       <<"_1.fq.gz", "_2.fq.gz">>, <<"_1.fq", "_2.fq">> >>

\* patterns of check_existing_files, single-end branch
patterns_single == <<".fastq.gz", ".fastq", ".fq.gz", ".fq">>

\* names ending in .fastq (the files download_sra_directly hands to gzip)
DotFastq == {"_1.fastq", "_2.fastq", ".1.fastq", ".2.fastq", ".fastq"}

\* names ending in .fastq.gz
DotFastqGz == {"_1.fastq.gz", "_2.fastq.gz", ".1.fastq.gz", ".2.fastq.gz", ".fastq.gz"}

\* names ending in .fq.gz or .fq
DotFq == {"_1.fq.gz", "_2.fq.gz", "_1.fq", "_2.fq", ".fq.gz", ".fq"}

DataNames == DotFastq \cup DotFastqGz \cup DotFq

Names == DataNames \cup {MARKER, TEMP_ID, TEMP_NCBI, TEMP_SRA}

Truthy(x) == x = "True"

exists(d, f) == d[f] # "absent"

getsize_positive(d, f) == d[f] \notin {"absent", "empty"}

remove(d, f) == [d EXCEPT ![f] = "absent"]

write_marker_noop(d) == d

write_marker(d) == [d EXCEPT ![MARKER] = "text"]

\* the files a tool leaves: a function from some names to contents
Apply(d, out) == [n \in Names |-> IF n \in DOMAIN out THEN out[n] ELSE d[n]]

\* a prefix test that accepts every identifier
startswith_ERR_always(id) == TRUE

startswith_ERR(id) == Len(id) >= 3 /\ SubSeq(id, 1, 3) = <<"E", "R", "R">>

----------------------------------------------------------------------------
\* Validator

is_valid_fastq_file(d, f) == d[f] = "valid"

----------------------------------------------------------------------------
\* verify_and_clean_downloads

RECURSIVE verify_pairs(_, _)
verify_pairs(d, i) ==
    IF i > Len(file_pairs) THEN [disk |-> d, found |-> FALSE]
    ELSE LET f1 == file_pairs[i][1]
             f2 == file_pairs[i][2]
         IN  IF exists(d, f1) /\ exists(d, f2)
             THEN LET valid1 == is_valid_fastq_file(d, f1)
                      valid2 == is_valid_fastq_file(d, f2)
                  IN  IF valid1 /\ valid2 THEN [disk |-> d, found |-> TRUE]
                      ELSE IF ~valid1 THEN verify_pairs(remove(d, f1), i + 1)
                      ELSE verify_pairs(remove(d, f2), i + 1)
             ELSE verify_pairs(d, i + 1)

RECURSIVE verify_singles(_, _)
verify_singles(d, i) ==
    IF i > Len(single_files) THEN [disk |-> d, found |-> FALSE]
    ELSE LET f == single_files[i]
         IN  IF exists(d, f)
             THEN IF is_valid_fastq_file(d, f) THEN [disk |-> d, found |-> TRUE]
                  ELSE verify_singles(remove(d, f), i + 1)
             ELSE verify_singles(d, i + 1)

verify_and_clean_downloads_keep_marker(d, paired) ==
    IF paired THEN verify_pairs(d, 1) ELSE verify_singles(d, 1)

verify_and_clean_downloads(d, paired) ==
    LET r == IF paired THEN verify_pairs(d, 1) ELSE verify_singles(d, 1)
    IN  IF r.found THEN r
        ELSE [disk |-> remove(r.disk, MARKER), found |-> FALSE]

----------------------------------------------------------------------------
\* check_existing_files

RECURSIVE probe_pairs(_, _)
probe_pairs(d, i) ==
    IF i > Len(patterns_paired) THEN [disk |-> d, found |-> FALSE]
    ELSE LET f1 == patterns_paired[i][1]
             f2 == patterns_paired[i][2]
         IN  IF getsize_positive(d, f1) /\ getsize_positive(d, f2)
             THEN IF is_valid_fastq_file(d, f1) /\ is_valid_fastq_file(d, f2)
                  THEN [disk |-> write_marker(d), found |-> TRUE]
                  ELSE LET d1 == IF ~is_valid_fastq_file(d, f1) THEN remove(d, f1) ELSE d
                           d2 == IF ~is_valid_fastq_file(d1, f2) THEN remove(d1, f2) ELSE d1
                       IN  probe_pairs(d2, i + 1)
             ELSE probe_pairs(d, i + 1)

RECURSIVE probe_singles(_, _)
probe_singles(d, i) ==
    IF i > Len(patterns_single) THEN [disk |-> d, found |-> FALSE]
    ELSE LET f == patterns_single[i]
         IN  IF getsize_positive(d, f)
             THEN IF is_valid_fastq_file(d, f)
                  THEN [disk |-> write_marker(d), found |-> TRUE]
                  ELSE probe_singles(remove(d, f), i + 1)
             ELSE probe_singles(d, i + 1)

check_existing_files_ignores_layout(d, paired) ==
    IF exists(d, MARKER)
    THEN verify_and_clean_downloads(d, FALSE)
    ELSE probe_singles(d, 1)

check_existing_files_trusts_marker(d, paired) ==
    IF exists(d, MARKER)
    THEN [disk |-> d, found |-> TRUE]
    ELSE IF paired THEN probe_pairs(d, 1) ELSE probe_singles(d, 1)

check_existing_files(d, paired) ==
    IF exists(d, MARKER)
    THEN LET v == verify_and_clean_downloads(d, paired)
         IN  IF v.found THEN v
             ELSE [disk |-> remove(v.disk, MARKER), found |-> FALSE]
    ELSE IF paired THEN probe_pairs(d, 1) ELSE probe_singles(d, 1)

----------------------------------------------------------------------------
\* What the external tools can leave in the item directory

Quality == {"valid", "invalid"}

\* nothing, a pair, one unsuffixed file, or a lone first read file
Patches(p1, p2, s) ==
    UNION {[X -> Quality] : X \in {{}, {p1, p2}, {s}, {p1}}}

\* output of a tool run with split output (fastq-dump --split-files)
SplitPatches(p1, p2) == UNION {[X -> Quality] : X \in {{}, {p1, p2}, {p1}}}

\* output of a tool run without split output
UnsplitPatches(s) == UNION {[X -> Quality] : X \in {{}, {s}}}

FastqOut == Patches("_1.fastq", "_2.fastq", ".fastq")
FastqGzOut == Patches("_1.fastq.gz", "_2.fastq.gz", ".fastq.gz")

RC == {0, 1}

----------------------------------------------------------------------------
\* download_sra_directly

\* gzip <file>: the compressed file holds the same records; an empty input
\* gives a non-empty archive with no line in it. Without -f an existing
\* target is not overwritten and the input is kept.
gz_name(f) ==
    CASE f = "_1.fastq" -> "_1.fastq.gz"
      [] f = "_2.fastq" -> "_2.fastq.gz"
      [] f = ".1.fastq" -> ".1.fastq.gz"
      [] f = ".2.fastq" -> ".2.fastq.gz"
      [] f = ".fastq" -> ".fastq.gz"

gz_content(c) == IF c = "empty" THEN "invalid" ELSE c

gzip(d, f) ==
    IF ~exists(d, f) \/ exists(d, gz_name(f)) THEN d
    ELSE [d EXCEPT ![gz_name(f)] = gz_content(d[f]), ![f] = "absent"]

\* for file in os.listdir(fastq_dir): if file.endswith('.fastq'): gzip
gzip_all(d) ==
    gzip(gzip(gzip(gzip(gzip(d, "_1.fastq"), "_2.fastq"), ".1.fastq"), ".2.fastq"), ".fastq")

DirectBehaviours ==
    {[prefetch_rc |-> 1, fasterq_rc |-> 0, out |-> <<>>]}
    \cup {[prefetch_rc |-> 0, fasterq_rc |-> rc, out |-> o] : rc \in RC, o \in FastqOut}

download_sra_directly(d, b) ==
    IF b.prefetch_rc # 0 THEN [disk |-> d, ok |-> FALSE]
    ELSE LET d1 == Apply(d, b.out)
         IN  IF b.fasterq_rc # 0 THEN [disk |-> d1, ok |-> FALSE]
             ELSE LET d2 == gzip_all(d1)
                      paired == exists(d2, "_1.fastq.gz") /\ exists(d2, "_2.fastq.gz")
                      v == verify_and_clean_downloads(d2, paired)
                  IN  [disk |-> v.disk, ok |-> v.found]

----------------------------------------------------------------------------
\* try_download_with_curl: one URL layout

CurlOutcomes == {"fail", "empty", "invalid", "valid"}

ebi_file_names(paired) ==
    IF paired THEN <<"_1.fastq.gz", "_2.fastq.gz">> ELSE <<".fastq.gz">>

\* curl -o output_path: a failed request leaves the path as it was
curl_to(d, f, o) == IF o = "fail" THEN d ELSE [d EXCEPT ![f] = o]

\* the download loop; k counts the entries of downloaded_files
RECURSIVE curl_files(_, _, _, _)
curl_files(d, names, outs, i) ==
    IF i > Len(names) THEN [disk |-> d, curl_success |-> TRUE, k |-> i - 1]
    ELSE LET d1 == curl_to(d, names[i], outs[i])
         IN  IF outs[i] = "fail" \/ ~exists(d1, names[i]) \/ ~getsize_positive(d1, names[i])
             THEN [disk |-> d1, curl_success |-> FALSE, k |-> i]
             ELSE IF ~is_valid_fastq_file(d1, names[i])
             THEN [disk |-> d1, curl_success |-> FALSE, k |-> i]
             ELSE curl_files(d1, names, outs, i + 1)

RECURSIVE remove_all(_, _, _)
remove_all(d, names, k) ==
    IF k = 0 THEN d ELSE remove_all(remove(d, names[k]), names, k - 1)

\* a URL layout that leaves its partial downloads in place
ebi_pattern_no_cleanup(d, paired, outs) ==
    LET names == ebi_file_names(paired)
        r == curl_files(d, names, outs, 1)
    IN  IF r.curl_success THEN [disk |-> write_marker(r.disk), ok |-> TRUE]
        ELSE [disk |-> r.disk, ok |-> FALSE]

ebi_pattern(d, paired, outs) ==
    LET names == ebi_file_names(paired)
        r == curl_files(d, names, outs, 1)
    IN  IF r.curl_success THEN [disk |-> write_marker(r.disk), ok |-> TRUE]
        ELSE [disk |-> remove_all(r.disk, names, r.k), ok |-> FALSE]

----------------------------------------------------------------------------
\* try_ncbi_download

\* pattern 1: curl fails (or returns at most 1024 bytes), or returns a zip/tar
\* archive with members, or a plain FASTQ file, or other bytes
Ncbi1Behaviours ==
    {[kind |-> k, members |-> <<>>] : k \in {"fail", "fastq", "junk"}}
    \cup {[kind |-> "archive", members |-> m] : m \in FastqGzOut}

\* early: the function returned from inside pattern 1 (single file for paired data)
ncbi_pattern1(d, paired, b) ==
    IF b.kind = "fail" THEN [disk |-> remove(d, TEMP_NCBI), ok |-> FALSE, early |-> FALSE]
    ELSE IF b.kind = "archive"
    THEN LET d1 == remove(Apply(d, b.members), TEMP_NCBI)
             v == verify_and_clean_downloads(d1, paired)
         IN  IF v.found THEN [disk |-> write_marker(v.disk), ok |-> TRUE, early |-> FALSE]
             ELSE [disk |-> v.disk, ok |-> FALSE, early |-> FALSE]
    ELSE IF b.kind = "fastq"
    THEN IF paired THEN [disk |-> remove(d, TEMP_NCBI), ok |-> FALSE, early |-> TRUE]
         ELSE LET d1 == gzip([d EXCEPT ![".fastq"] = "valid", ![TEMP_NCBI] = "absent"], ".fastq")
                  v == verify_and_clean_downloads(d1, paired)
              IN  IF v.found THEN [disk |-> write_marker(v.disk), ok |-> TRUE, early |-> FALSE]
                  ELSE [disk |-> v.disk, ok |-> FALSE, early |-> FALSE]
    ELSE [disk |-> remove(d, TEMP_NCBI), ok |-> FALSE, early |-> FALSE]

\* pattern 2: curl of the .sra file, `which fastq-dump`, the extraction
Ncbi2Behaviours ==
    {[curl_ok |-> FALSE, which |-> FALSE, rc |-> 1, out |-> <<>>],
     [curl_ok |-> TRUE, which |-> FALSE, rc |-> 1, out |-> <<>>]}
    \cup {[curl_ok |-> TRUE, which |-> TRUE, rc |-> rc, out |-> o] : rc \in RC, o \in FastqGzOut}

ncbi_pattern2(d, paired, b) ==
    IF ~b.curl_ok \/ ~b.which THEN [disk |-> remove(d, TEMP_SRA), ok |-> FALSE]
    ELSE LET d1 == Apply(d, b.out)
         IN  IF b.rc = 0
             THEN LET v == verify_and_clean_downloads(d1, paired)
                  IN  IF v.found
                      THEN [disk |-> remove(write_marker(v.disk), TEMP_SRA), ok |-> TRUE]
                      ELSE [disk |-> remove(v.disk, TEMP_SRA), ok |-> FALSE]
             ELSE [disk |-> remove(d1, TEMP_SRA), ok |-> FALSE]

----------------------------------------------------------------------------
\* download_with_fastq_dump

\* rc2 and out2 are what the unsplit invocation does when it is run
FastqDumpBehaviours ==
    {[rc1 |-> rc1, out1 |-> o1, rc2 |-> rc2, out2 |-> o2] :
        rc1 \in RC, o1 \in SplitPatches("_1.fastq.gz", "_2.fastq.gz"), rc2 \in RC,
        o2 \in UnsplitPatches(".fastq.gz")}

\* the dump strategy judged by the exit status alone
download_with_fastq_dump_rc_only(d, b) ==
    LET d1 == Apply(d, b.out1)
        d2 == IF b.rc1 # 0 THEN Apply(d1, b.out2) ELSE d1
        returncode == IF b.rc1 # 0 THEN b.rc2 ELSE b.rc1
    IN  IF returncode = 0
        THEN [disk |-> write_marker(d2), ok |-> TRUE]
        ELSE [disk |-> d2, ok |-> FALSE]

download_with_fastq_dump(d, b) ==
    LET d1 == Apply(d, b.out1)
        d2 == IF b.rc1 # 0 THEN Apply(d1, b.out2) ELSE d1
        returncode == IF b.rc1 # 0 THEN b.rc2 ELSE b.rc1
        files == {f \in DotFastqGz \cup DotFastq : exists(d2, f)}
    IN  IF returncode = 0 /\ files # {}
        THEN [disk |-> write_marker(d2), ok |-> TRUE]
        ELSE [disk |-> d2, ok |-> FALSE]

----------------------------------------------------------------------------
\* download_single_sra: the amalgkit getfastq step

\* Popen raises (raises), or the tool exits with rc having written `out` into
\* the item directory (loc = "item") or into <out_dir>/getfastq/<id> (loc = "alt")
AmalgkitBehaviours ==
    {[raises |-> TRUE, rc |-> 1, loc |-> "item", out |-> <<>>]}
    \cup {[raises |-> FALSE, rc |-> 1, loc |-> "item", out |-> o] : o \in FastqGzOut}
    \cup {[raises |-> FALSE, rc |-> 0, loc |-> l, out |-> o] :
            l \in {"item", "alt"}, o \in FastqGzOut}

\* result: "success" (return True), "raised" (the except branch),
\* "fallback" (go on to download_with_fastq_dump)
amalgkit_step(d, paired, b) ==
    LET d0 == [d EXCEPT ![TEMP_ID] = "text"]
    IN  IF b.raises THEN [disk |-> d0, result |-> "raised", marked |-> FALSE]
        ELSE LET d1 == IF b.loc = "item" THEN Apply(d0, b.out) ELSE d0
             IN  IF b.rc # 0 THEN [disk |-> d1, result |-> "fallback", marked |-> FALSE]
                 ELSE LET here == {f \in DataNames : exists(d1, f)} # {}
                          v1 == IF here THEN verify_and_clean_downloads(write_marker(d1), paired)
                                ELSE [disk |-> d1, found |-> FALSE]
                          there == b.loc = "alt" /\ DOMAIN b.out # {}
                          v2 == IF there
                                THEN verify_and_clean_downloads(
                                         write_marker(Apply(v1.disk, b.out)), paired)
                                ELSE [disk |-> v1.disk, found |-> FALSE]
                     IN  IF v1.found
                         THEN [disk |-> v1.disk, result |-> "success", marked |-> TRUE]
                         ELSE IF v2.found
                         THEN [disk |-> v2.disk, result |-> "success", marked |-> TRUE]
                         ELSE [disk |-> v2.disk, result |-> "fallback",
                               marked |-> here \/ there]

----------------------------------------------------------------------------
\* The item worker

IDs == {<<"S", "R", "R", "1">>, <<"E", "R", "R", "1">>}

Layouts == {"True", "False", "None"}

\* files that may be present before the first run
InitNames == {"_1.fastq.gz", "_2.fastq.gz", ".fastq.gz"}

InitDisks ==
    {[n \in Names |-> IF n \in InitNames THEN f[n] ELSE IF n = MARKER THEN m ELSE "absent"] :
        f \in [InitNames -> {"absent", "empty", "invalid", "valid"}],
        m \in {"absent", "text"}}

\* no call of is_valid_fastq_file is under study
ValidatorIdle ==
    /\ file = "none"
    /\ valid = [ret |-> "none", via |-> "none"]

\* no call of get_layout_from_metadata is under study
ResolverIdle ==
    /\ metadata = "none"
    /\ layout = "none"

\* main is not under study
MainIdle ==
    /\ mpc = "idle"
    /\ id_list_exists = TRUE
    /\ metadata_exists = TRUE
    /\ out_dir = "writable"
    /\ srr_ids = <<>>
    /\ max_concurrent = 1
    /\ future = <<>>
    /\ collected = {}
    /\ counters = [successful |-> 0, skipped |-> 0, failed |-> 0, completed |-> 0]
    /\ summary = <<>>
    /\ exit_code = -1

\* no call of check_existing_files alone is under study
ProberIdle ==
    /\ p_in = "none"
    /\ p_paired = FALSE
    /\ p_disk = "none"
    /\ p_ret = "none"

ToolsIdle ==
    /\ tool_pc = "idle"
    /\ df = <<>>
    /\ quant_dir = [exists |-> FALSE]
    /\ parsed = [raises |-> "none"]
    /\ data_available = <<>>
    /\ data_unavailable = <<>>
    /\ outpath = [exists |-> FALSE]

\* a complete file set of one naming convention, every file passing validation
has_valid_set(d, paired) ==
    IF paired
    THEN \E i \in 1..Len(patterns_paired) :
            /\ is_valid_fastq_file(d, patterns_paired[i][1])
            /\ is_valid_fastq_file(d, patterns_paired[i][2])
    ELSE \E i \in 1..Len(patterns_single) : is_valid_fastq_file(d, patterns_single[i])

\* no data file and no temporary download file in the item directory
is_clean(d) == \A n \in DataNames \cup {TEMP_NCBI, TEMP_SRA} : ~exists(d, n)

\* the order of the strategy blocks of download_single_sra (and of the URL
\* layouts inside try_download_with_curl and try_ncbi_download)
next_stage_dump_first(stage) ==
    CASE stage = "probe" -> "direct"
      [] stage = "direct" -> "ebi1"
      [] stage = "ebi1" -> "ebi2"
      [] stage = "ebi2" -> "ebi3"
      [] stage = "ebi3" -> "ncbi1"
      [] stage = "ncbi1" -> "ncbi2"
      [] stage = "ncbi2" -> "fastq_dump"
      [] stage = "amalgkit" -> "fastq_dump"

next_stage(stage) ==
    CASE stage = "probe" -> "direct"
      [] stage = "direct" -> "ebi1"
      [] stage = "ebi1" -> "ebi2"
      [] stage = "ebi2" -> "ebi3"
      [] stage = "ebi3" -> "ncbi1"
      [] stage = "ncbi1" -> "ncbi2"
      [] stage = "ncbi2" -> "amalgkit"
      [] stage = "amalgkit" -> "fastq_dump"

Init ==
    /\ srr_id \in IDs
    /\ is_paired \in Layouts
    /\ force \in BOOLEAN
    /\ disk \in InitDisks
    /\ pc = "worker"
    /\ outcome = "none"
    /\ attempts = <<>>
    /\ startedClean = is_clean(disk)
    /\ provisional = FALSE
    /\ hadValid = has_valid_set(disk, Truthy(is_paired))
    /\ run = 1
    /\ prev = "none"
    /\ ValidatorIdle
    /\ ResolverIdle
    /\ MainIdle
    /\ ProberIdle
    /\ ToolsIdle

\* a step of download_single_sra ends: return True, or go on to the next block
Step(stage, d2, ok) ==
    /\ disk' = d2
    /\ IF ok THEN pc' = "done" /\ outcome' = "success"
             ELSE pc' = next_stage(stage) /\ outcome' = outcome

\* download_worker up to the call of download_single_sra
DownloadWorker ==
    /\ pc = "worker"
    /\ LET r == check_existing_files(disk, FALSE)
       IN  IF ~force /\ r.found
           THEN disk' = r.disk /\ pc' = "done" /\ outcome' = "skipped"
           ELSE /\ disk' = IF force THEN disk ELSE r.disk
                /\ pc' = "probe"
                /\ outcome' = outcome
    /\ UNCHANGED <<not_worker, srr_id, is_paired, force, attempts, startedClean, provisional, hadValid, run, prev>>

\* download_single_sra: layout lookup and existence probe
Probe ==
    /\ pc = "probe"
    /\ LET r == check_existing_files(disk, Truthy(is_paired))
       IN  Step("probe", r.disk, r.found)
    /\ UNCHANGED <<not_worker, srr_id, is_paired, force, attempts, startedClean, provisional, hadValid, run, prev>>

\* the direct SRA toolkit block
Direct ==
    /\ pc = "direct"
    /\ \/ Step("direct", disk, FALSE)          \* `which prefetch` fails
       \/ \E b \in DirectBehaviours :
            LET r == download_sra_directly(disk, b) IN Step("direct", r.disk, r.ok)
    /\ attempts' = Append(attempts, "direct")
    /\ UNCHANGED <<not_worker, srr_id, is_paired, force, startedClean, provisional, hadValid, run, prev>>

\* curl's outcome for each file the loop reaches (it stops at the first failure)
EbiOuts(paired) ==
    IF paired
    THEN {<<o>> : o \in CurlOutcomes \ {"valid"}} \cup {<<"valid", o>> : o \in CurlOutcomes}
    ELSE {<<o>> : o \in CurlOutcomes}

EbiPattern(stage) ==
    /\ pc = stage
    /\ \E outs \in EbiOuts(Truthy(is_paired)) :
         LET r == ebi_pattern(disk, Truthy(is_paired), outs) IN Step(stage, r.disk, r.ok)

\* try_download_with_curl, URL pattern 1
Ebi1 ==
    /\ EbiPattern("ebi1")
    /\ attempts' = Append(attempts, "ebi")
    /\ UNCHANGED <<not_worker, srr_id, is_paired, force, startedClean, provisional, hadValid, run, prev>>

\* try_download_with_curl, URL pattern 2
Ebi2 ==
    /\ EbiPattern("ebi2")
    /\ UNCHANGED <<not_worker, srr_id, is_paired, force, attempts, startedClean, provisional, hadValid, run, prev>>

\* try_download_with_curl, the ERA pattern
Ebi3 ==
    /\ pc = "ebi3"
    /\ IF startswith_ERR(srr_id) THEN EbiPattern("ebi3") ELSE Step("ebi3", disk, FALSE)
    /\ UNCHANGED <<not_worker, srr_id, is_paired, force, attempts, startedClean, provisional, hadValid, run, prev>>

\* try_ncbi_download, pattern 1
Ncbi1 ==
    /\ pc = "ncbi1"
    /\ \E b \in Ncbi1Behaviours :
         LET r == ncbi_pattern1(disk, Truthy(is_paired), b)
         IN  Step(IF r.early THEN "ncbi2" ELSE "ncbi1", r.disk, r.ok)
    /\ attempts' = Append(attempts, "ncbi")
    /\ UNCHANGED <<not_worker, srr_id, is_paired, force, startedClean, provisional, hadValid, run, prev>>

\* try_ncbi_download, pattern 2
Ncbi2 ==
    /\ pc = "ncbi2"
    /\ \E b \in Ncbi2Behaviours :
         LET r == ncbi_pattern2(disk, Truthy(is_paired), b) IN Step("ncbi2", r.disk, r.ok)
    /\ UNCHANGED <<not_worker, srr_id, is_paired, force, attempts, startedClean, provisional, hadValid, run, prev>>

\* a finally clause that leaves the scratch file in place
finally_keeps_id(d) == d

\* download_single_sra, the finally clause: the scratch id list is removed
finally_cleanup(d) == remove(d, TEMP_ID)

\* the amalgkit getfastq block
Amalgkit ==
    /\ pc = "amalgkit"
    /\ \E b \in AmalgkitBehaviours :
         LET r == amalgkit_step(disk, Truthy(is_paired), b)
         IN  /\ provisional' = (provisional \/ r.marked)
             /\ IF r.result = "raised"
                THEN /\ disk' = finally_cleanup(r.disk)
                     /\ pc' = "done"
                     /\ outcome' = "failed"
                ELSE IF r.result = "success"
                THEN Step("amalgkit", finally_cleanup(r.disk), TRUE)
                ELSE Step("amalgkit", r.disk, FALSE)
    /\ attempts' = Append(attempts, "amalgkit")
    /\ UNCHANGED <<not_worker, srr_id, is_paired, force, startedClean, hadValid, run, prev>>

\* download_with_fastq_dump as called from the amalgkit block, and the finally
FastqDump ==
    /\ pc = "fastq_dump"
    /\ \E b \in FastqDumpBehaviours :
         LET r == download_with_fastq_dump(disk, b)
             d2 == finally_cleanup(r.disk)
         IN  /\ disk' = d2
             /\ pc' = "done"
             /\ outcome' = IF r.ok THEN "success" ELSE "failed"
    /\ attempts' = Append(attempts, "fastq_dump")
    /\ UNCHANGED <<not_worker, srr_id, is_paired, force, startedClean, provisional, hadValid, run, prev>>

\* the pipeline is run again over the same output root, without --force
Rerun ==
    /\ pc = "done"
    /\ run < MaxRuns
    /\ run' = run + 1
    /\ prev' = outcome
    /\ force' = FALSE
    /\ pc' = "worker"
    /\ outcome' = "none"
    /\ attempts' = <<>>
    /\ startedClean' = is_clean(disk)
    /\ provisional' = FALSE
    /\ hadValid' = has_valid_set(disk, Truthy(is_paired))
    /\ UNCHANGED <<not_worker, srr_id, is_paired, disk>>

Next ==
    \/ DownloadWorker
    \/ Probe
    \/ Direct
    \/ Ebi1
    \/ Ebi2
    \/ Ebi3
    \/ Ncbi1
    \/ Ncbi2
    \/ Amalgkit
    \/ FastqDump
    \/ Rerun

Spec == Init /\ [][Next]_vars

----------------------------------------------------------------------------
\* Properties

\* the strategy blocks of download_single_sra in source order
Chain == <<"direct", "ebi", "ncbi", "amalgkit", "fastq_dump">>

\* some naming convention, paired or single-end, is complete and valid on disk
some_valid_set(d) == has_valid_set(d, TRUE) \/ has_valid_set(d, FALSE)

Finished == pc = "done"

\* C1: an item of known layout whose directory holds a complete valid file
\* set at the start of a run without --force ends 'skipped', and no strategy
\* was invoked.
C1_ExistingValidIsSkipped ==
    (Finished /\ ~force /\ hadValid /\ is_paired # "None")
        => (outcome = "skipped" /\ attempts = <<>>)

\* C2: after a run that ended 'success' or 'skipped', the next run over the
\* same files (force off) invokes no strategy and does not end 'failed'.
C2_RerunIsIdempotent ==
    (run > 1 /\ prev \in {"success", "skipped"} /\ ~force)
        => (attempts = <<>> /\ (Finished => outcome # "failed"))

\* C3: when the worker has returned, the marker exists only if a complete
\* file set that passes validation is on disk.
C3_MarkerOnlyIfValidated ==
    (Finished /\ exists(disk, MARKER)) => some_valid_set(disk)

\* C4: when the worker returns 'success' the marker exists.
C4_SuccessHasMarker ==
    (Finished /\ outcome = "success") => exists(disk, MARKER)

\* C5: when the worker returns 'success' after a strategy ran, the files it
\* reports passed validation, so a complete valid file set is on disk.
C5_SuccessAfterStrategyIsValid ==
    (Finished /\ outcome = "success" /\ attempts # <<>>) => some_valid_set(disk)

\* C6: the strategies invoked are an initial part of the chain, each once and
\* in order, and the worker gives up only after the whole chain was invoked:
\* while a strategy is left, the failure of the ones before it leads to it.
C6_FallbackIsTotal ==
    (Finished /\ attempts # <<>>)
        => /\ Len(attempts) <= Len(Chain)
           /\ attempts = SubSeq(Chain, 1, Len(attempts))
           /\ (outcome = "failed" => attempts = Chain)

\* position of a strategy in the order the specification states
rank_stated(s) ==
    CASE s = "direct" -> 1 [] s = "ebi" -> 2 [] s = "ncbi" -> 3
      [] s = "fastq_dump" -> 4 [] s = "amalgkit" -> 5

\* position of a strategy in the order: direct toolkit, EBI mirror, NCBI
\* mirror, external pipeline tool, legacy dump tool
rank_amended(s) ==
    CASE s = "direct" -> 1 [] s = "ebi" -> 2 [] s = "ncbi" -> 3
      [] s = "amalgkit" -> 4 [] s = "fastq_dump" -> 5

\* C7 as stated: direct toolkit, HTTP mirrors, legacy dump tool, and the
\* external pipeline tool last; no strategy twice.
C7_StatedOrder ==
    \A i, j \in 1..Len(attempts) :
        i < j => rank_stated(attempts[i]) < rank_stated(attempts[j])

\* C7 amended: the strategies are attempted in the order direct toolkit, EBI
\* mirror, NCBI mirror, external pipeline tool (amalgkit getfastq), and the
\* legacy dump tool (fastq-dump) last, only after the external pipeline tool
\* was attempted; no strategy is attempted twice in one invocation.
C7_AmendedOrder ==
    /\ \A i, j \in 1..Len(attempts) :
            i < j => rank_amended(attempts[i]) < rank_amended(attempts[j])
    /\ \A j \in 1..Len(attempts) :
            attempts[j] = "fastq_dump" => (j > 1 /\ attempts[j - 1] = "amalgkit")

C7_Witness == Finished /\ attempts = Chain

\* C8: when the worker returns 'failed' no marker exists, also when the
\* amalgkit step had written one before verifying.
C8_FailedLeavesNoMarker ==
    (Finished /\ outcome = "failed") => ~exists(disk, MARKER)

C8_Witness == Finished /\ outcome = "failed" /\ provisional /\ attempts = Chain

\* C9: when the worker returns 'failed' for an item whose directory held no
\* data file at the start, no data or temporary file is left in it.
C9_FailedLeavesNoFiles ==
    (Finished /\ outcome = "failed" /\ startedClean) => is_clean(disk)

\* C10: with --force and valid output present at the start, the worker does
\* not finish without having attempted a strategy.
C10_ForceAttemptsStrategy ==
    (Finished /\ force /\ hadValid) => attempts # <<>>

\* C11: when a run without --force starts with the marker present and no
\* complete valid file set of the item's layout on disk, the worker's probe
\* does not classify the item 'skipped' and leaves no marker.
C11_StaleMarkerNeverSkips ==
    [][(/\ pc = "worker"
        /\ ~force
        /\ is_paired # "None"
        /\ exists(disk, MARKER)
        /\ ~has_valid_set(disk, Truthy(is_paired)))
            => (outcome' # "skipped" /\ ~exists(disk', MARKER))]_vars

----------------------------------------------------------------------------
\* is_valid_fastq_file in detail
\*
\* The file at file_path is a record
\*   gz       the path ends with ".gz"
\*   stat     os.path.getsize succeeds ("ok") or raises the named exception
\*   size     the size in bytes
\*   open     opening the file succeeds ("ok") or raises the named exception
\*   header   the first 200 bytes, as a sequence of words
\*   lines    the first character of each text line (after decompression)
\*   fail_at  the readline call that raises (0: none), and
\*   exc      the exception it raises
\* A call ends as [ret, via]: ret is "True", "False" or "raise" (an exception
\* leaves the function), via names the return statement or the exception.

\* files below this size get the error-page check
SMALL_FILE_BYTES == 1024

\* the number of lines read by the structural check
FASTQ_LINES == 4

\* the longest file modelled, in lines
MaxLines == 4

error_markers == {"<!doctype html", "<html", "error", "not found", "404"}

HeaderWords == {"@SRR1", "ACGT", "<!DOCTYPE html", "<HTML", "Error", "not found", "404"}

\* str.lower
lower(w) ==
    CASE w = "<!DOCTYPE html" -> "<!doctype html"
      [] w = "<HTML" -> "<html"
      [] w = "Error" -> "error"
      [] w = "ACGT" -> "acgt"
      [] w = "@SRR1" -> "@srr1"
      [] w = "PAIRED" -> "paired"
      [] OTHER -> w

\* any(error_marker in header for error_marker in [...]) on the lowered header
is_error_page(header) ==
    \E i \in 1..Len(header) : lower(header[i]) \in error_markers

\* exception classes: except OSError (IOError), except Exception
OSErrors == {"OSError", "BadGzipFile"}
Exceptions == OSErrors \cup {"EOFError", "UnicodeDecodeError"}

Ret(ret, via) == [ret |-> ret, via |-> via]
Raise(exc) == [ret |-> "raise", via |-> exc]

\* try: <body result r> except <classes>: return False
except(classes, r, via) ==
    IF r.ret = "raise" /\ r.via \in classes THEN Ret("False", via) ELSE r

\* the for loop of readline calls: the lines read, or the exception of a call
read_lines(f) ==
    LET n == IF Len(f.lines) < FASTQ_LINES THEN Len(f.lines) ELSE FASTQ_LINES
    IN  IF f.fail_at \in 1..FASTQ_LINES /\ f.fail_at <= Len(f.lines) + 1
        THEN Raise(f.exc)
        ELSE [ret |-> "lines", via |-> SubSeq(f.lines, 1, n)]

structure_rule_first_line_only(lines) ==
    IF Len(lines) < FASTQ_LINES THEN Ret("False", "fewer_than_4_lines")
    ELSE IF lines[1] # "@" THEN Ret("False", "no_at")
    ELSE Ret("True", "structure")

\* the four-line rule, on the lines read
structure_rule(lines) ==
    IF Len(lines) < FASTQ_LINES THEN Ret("False", "fewer_than_4_lines")
    ELSE IF lines[1] # "@" THEN Ret("False", "no_at")
    ELSE IF lines[3] # "+" THEN Ret("False", "no_plus")
    ELSE Ret("True", "structure")

\* the body of "with gzip.open(...)" / "with open(...)": a failing readline
\* is caught inside the loop
with_body(f) ==
    LET r == except(Exceptions, read_lines(f), "read_error")
    IN  IF r.ret = "lines" THEN structure_rule(r.via) ELSE r

\* the ".gz" branch
check_gz(f) ==
    LET r == IF f.open # "ok" THEN Raise(f.open) ELSE with_body(f)
    IN  except(OSErrors \cup {"UnicodeDecodeError"}, r, "bad_gzip")

\* the uncompressed branch
check_plain(f) ==
    LET r == IF f.open # "ok" THEN Raise(f.open) ELSE with_body(f)
    IN  except(OSErrors \cup {"UnicodeDecodeError"}, r, "unreadable")

\* the structural check: one branch by the path's suffix
check_structure(f) == IF f.gz THEN check_gz(f) ELSE check_plain(f)

\* the small-file error-page check: a return value, or "pass" to go on
check_error_page(f) ==
    IF f.size < SMALL_FILE_BYTES
    THEN LET r == IF f.open # "ok" THEN Raise(f.open)
                  ELSE IF is_error_page(f.header) THEN Ret("False", "error_page")
                  ELSE Ret("pass", "header")
         IN  except(Exceptions, r, "header_unreadable")
    ELSE Ret("pass", "size")

no_outer_except(r) == r

\* the outermost handler
outer_except(r) == except(Exceptions, r, "exception")

validate_structure_first(f) ==
    outer_except(IF f.stat # "ok" THEN Raise(f.stat)
                 ELSE LET s == check_structure(f)
                      IN  IF s.ret = "True" THEN
                              LET e == check_error_page(f)
                              IN IF e.ret = "pass" THEN s ELSE e
                          ELSE s)

\* is_valid_fastq_file(file_path), on the file at the path
validate_fastq(f) ==
    outer_except(IF f.stat # "ok" THEN Raise(f.stat)
                 ELSE LET e == check_error_page(f)
                      IN  IF e.ret = "pass" THEN check_structure(f) ELSE e)

\* The files given to is_valid_fastq_file

FileSizes == {0, SMALL_FILE_BYTES - 1, SMALL_FILE_BYTES}

Headers == {<<w>> : w \in HeaderWords} \cup {<<"@SRR1", w>> : w \in HeaderWords}

Texts == UNION {[1..n -> {"@", "+", "A"}] : n \in 0..MaxLines}

\* what a readline call can raise: a corrupt or truncated gzip stream, an
\* input/output error
ReadExc(gz) == IF gz THEN {"BadGzipFile", "EOFError"} ELSE {"OSError"}

\* no readline fails, or the k-th does, the earlier ones having returned a line
Failures(gz, l) ==
    {<<0, "none">>} \cup
    {<<k, e>> : k \in {j \in 1..FASTQ_LINES : j <= Len(l) + 1}, e \in ReadExc(gz)}

EmptyFile(gz) ==
    [gz |-> gz, stat |-> "ok", size |-> 0, open |-> "ok", header |-> <<>>,
     lines |-> <<>>, fail_at |-> 0, exc |-> "none"]

\* the path does not exist: os.path.getsize raises
MissingFiles == {[EmptyFile(gz) EXCEPT !.stat = "OSError"] : gz \in BOOLEAN}

\* the file exists and cannot be opened
UnreadableFiles ==
    {[EmptyFile(gz) EXCEPT !.size = sz, !.open = "OSError"] :
        gz \in BOOLEAN, sz \in FileSizes}

\* a file that exists and can be opened.  A non-empty uncompressed file has
\* at least one line; a non-empty .gz file may decompress to nothing
ReadableFile(gz, sz, h, l, ke) ==
    [gz |-> gz, stat |-> "ok", size |-> sz, open |-> "ok", header |-> h,
     lines |-> l, fail_at |-> ke[1], exc |-> ke[2]]

\* no item worker is running
WorkerIdle ==
    /\ srr_id = <<>>
    /\ is_paired = "None"
    /\ force = FALSE
    /\ disk = [n \in Names |-> "absent"]
    /\ pc = "idle"
    /\ outcome = "none"
    /\ attempts = <<>>
    /\ startedClean = TRUE
    /\ provisional = FALSE
    /\ hadValid = FALSE
    /\ run = 0
    /\ prev = "none"

InitValidator ==
    /\ \/ file \in MissingFiles \cup UnreadableFiles \cup {EmptyFile(gz) : gz \in BOOLEAN}
       \/ \E gz \in BOOLEAN, sz \in FileSizes \ {0}, h \in Headers, l \in Texts :
            /\ gz \/ Len(l) > 0
            /\ \E ke \in Failures(gz, l) : file = ReadableFile(gz, sz, h, l, ke)
    /\ valid = Ret("none", "none")
    /\ WorkerIdle
    /\ ResolverIdle
    /\ MainIdle
    /\ ProberIdle
    /\ ToolsIdle

\* one call of is_valid_fastq_file
Validate ==
    /\ valid.ret = "none"
    /\ valid' = validate_fastq(file)
    /\ UNCHANGED <<file, wvars, lvars, mvars, pvars, tvars>>

NextValidator == Validate

SpecValidator == InitValidator /\ [][NextValidator]_vars

\* the call has returned or raised
Validated == valid.ret # "none"

\* C17: a readable file below the size threshold whose header holds an
\* error-page marker is rejected by the error-page check, never by the
\* structural check.
C17_ErrorPageBeforeStructure ==
    (/\ Validated
     /\ file.stat = "ok"
     /\ file.open = "ok"
     /\ file.size < SMALL_FILE_BYTES
     /\ is_error_page(file.header))
        => valid = Ret("False", "error_page")

\* an error page of fewer than four lines, rejected as an error page
C17_Witness ==
    /\ Validated
    /\ valid = Ret("False", "error_page")
    /\ Len(file.lines) < FASTQ_LINES

\* C18: is_valid_fastq_file never raises, and returns False for a missing
\* file, an unreadable file and a .gz file whose decompression fails at open
\* or at a readline.
C18_NeverRaises ==
    Validated =>
        /\ valid.ret \in {"True", "False"}
        /\ (file.stat # "ok" \/ file.open # "ok" \/ file.fail_at # 0)
                => valid.ret = "False"

\* a missing path, answered False
C18_Witness ==
    /\ Validated
    /\ file.stat # "ok"
    /\ valid.ret = "False"

\* C19: a readable file that the error-page check lets pass is valid exactly
\* when four lines are read, the first starting with '@' and the third with
\* '+', compressed or not.
C19_StructureRule ==
    (/\ Validated
     /\ file.stat = "ok"
     /\ file.open = "ok"
     /\ ~(file.size < SMALL_FILE_BYTES /\ is_error_page(file.header)))
        => (valid.ret = "True" <=>
                /\ file.fail_at = 0
                /\ Len(file.lines) >= FASTQ_LINES
                /\ file.lines[1] = "@"
                /\ file.lines[3] = "+")

\* a small .gz file of four well-formed lines, accepted
C19_Witness ==
    /\ Validated
    /\ valid.ret = "True"
    /\ file.gz
    /\ file.size < SMALL_FILE_BYTES

----------------------------------------------------------------------------
\* C16: an exception inside a strategy attempt counts as that strategy's
\* failure and the chain goes on: the item turns 'failed' only in the last
\* strategy (fastq-dump), never while a later strategy is untried.
C16_FailedOnlyAfterLastStrategy ==
    [][(outcome # "failed" /\ outcome' = "failed") => pc = "fastq_dump"]_vars

----------------------------------------------------------------------------
\* get_layout_from_metadata
\*
\* The metadata file is a record: readable (pd.read_csv succeeds), the set of
\* columns of the table, and its rows (functions from the columns to cell
\* values).  A call ends with "True", "False" or "None" (the values of
\* is_paired), or "raise" if an exception leaves the function.

\* the most rows of a metadata table
MaxRows == 2

KeyColumns == {"run_accession", "run"}
LayoutColumns == {"library_layout", "lib_layout"}
Columns == KeyColumns \cup LayoutColumns

\* the item looked up, and another item of the table
Accessions == {"SRR1", "SRR2"}

\* cell values of a layout column; "NaN" is the float of an empty cell
LayoutValues == {"paired", "PAIRED", "single", "NaN"}
NonStrings == {"NaN"}

RowsOf(cols) ==
    {r \in [cols -> Accessions \cup LayoutValues] :
        \A c \in cols : r[c] \in IF c \in KeyColumns THEN Accessions ELSE LayoutValues}

TablesOf(cols) == UNION {[1..n -> RowsOf(cols)] : n \in 0..MaxRows}

\* pd.read_csv raises
UnreadableMetadata == [readable |-> FALSE, columns |-> {}, rows |-> <<>>]

\* metadata[metadata[key] == srr_id]
entry_of(md, key, id) == SelectSeq(md.rows, LAMBDA r : r[key] = id)

layout_equals_paired_exact(v) ==
    IF v \in NonStrings THEN "raise"
    ELSE IF v = "paired" THEN "True" ELSE "False"

\* layout.lower() == 'paired'; a non-string cell has no lower()
layout_equals_paired(v) ==
    IF v \in NonStrings THEN "raise"
    ELSE IF lower(v) = "paired" THEN "True" ELSE "False"

\* the if-block of one naming convention
lookup(md, key, col, id) ==
    LET entry == entry_of(md, key, id)
    IN  IF entry # <<>> /\ col \in md.columns
        THEN layout_equals_paired(entry[1][col])
        ELSE "None"

get_layout_from_metadata(md, id) ==
    LET r == IF ~md.readable THEN "raise"
             ELSE IF "run_accession" \notin md.columns
             THEN IF "run" \in md.columns
                  THEN lookup(md, "run", "lib_layout", id)
                  ELSE "None"
             ELSE lookup(md, "run_accession", "library_layout", id)
    IN  IF r = "raise" THEN "None" ELSE r

InitLayout ==
    /\ \/ metadata = UnreadableMetadata
       \/ \E cols \in SUBSET Columns : \E t \in TablesOf(cols) :
            metadata = [readable |-> TRUE, columns |-> cols, rows |-> t]
    /\ layout = "none"
    /\ WorkerIdle
    /\ ValidatorIdle
    /\ MainIdle
    /\ ProberIdle
    /\ ToolsIdle

\* one call of get_layout_from_metadata, for the item "SRR1"
ResolveLayout ==
    /\ layout = "none"
    /\ layout' = get_layout_from_metadata(metadata, "SRR1")
    /\ UNCHANGED <<metadata, wvars, vvars, mvars, pvars, tvars>>

NextLayout == ResolveLayout

SpecLayout == InitLayout /\ [][NextLayout]_vars

\* the call has returned or raised
Resolved == layout # "none"

\* 'paired', ignoring case
PairedSpellings == {"paired", "PAIRED"}

\* under one naming convention: the row is found and its layout is a string
usable(md, key, col, id) ==
    /\ md.readable
    /\ key \in md.columns
    /\ col \in md.columns
    /\ entry_of(md, key, id) # <<>>
    /\ entry_of(md, key, id)[1][col] \notin NonStrings

\* under one naming convention: the row is found and its layout is 'paired'
found_paired(md, key, col, id) ==
    /\ usable(md, key, col, id)
    /\ entry_of(md, key, id)[1][col] \in PairedSpellings

\* C20 as stated: the result is paired exactly when the row is found under
\* the primary or the alternate key column with a layout of 'paired' in any
\* case, it is unknown when neither convention yields a string layout, and
\* the call never raises.
C20_StatedRule ==
    Resolved =>
        /\ layout # "raise"
        /\ layout = "True" <=>
              \/ found_paired(metadata, "run_accession", "library_layout", "SRR1")
              \/ found_paired(metadata, "run", "lib_layout", "SRR1")
        /\ (/\ ~usable(metadata, "run_accession", "library_layout", "SRR1")
            /\ ~usable(metadata, "run", "lib_layout", "SRR1")) => layout = "None"

\* C20 amended: the alternate convention (run, lib_layout) is used only when
\* the table has no run_accession column.  The result is paired exactly when
\* the first row found under the convention in use has a layout of 'paired'
\* in any case, unknown exactly when that convention yields no string layout
\* (unreadable file, missing column, no row, non-string value), and the call
\* never raises.
C20_AmendedRule ==
    Resolved =>
        LET primary == metadata.readable /\ "run_accession" \in metadata.columns
            key == IF primary THEN "run_accession" ELSE "run"
            col == IF primary THEN "library_layout" ELSE "lib_layout"
        IN  /\ layout \in {"True", "False", "None"}
            /\ layout = "True" <=> found_paired(metadata, key, col, "SRR1")
            /\ layout = "None" <=> ~usable(metadata, key, col, "SRR1")

\* a table of the alternate convention whose row spells the layout in capitals
C20_Witness ==
    /\ Resolved
    /\ layout = "True"
    /\ "run_accession" \notin metadata.columns
    /\ entry_of(metadata, "run", "SRR1")[1]["lib_layout"] = "PAIRED"

----------------------------------------------------------------------------
\* main: the pool coordinator, from input validation to the exit status
\* (download mode: --test is not given)
\*
\* A submitted task is "pending" (queued in the executor), "running"
\* (download_worker has started) or finished with download_worker's result
\* tag "success", "skipped" or "failed", or "raised" (an exception left
\* download_worker and is stored in the future).

\* the longest ID list
MaxItems == 3

\* the largest --max_concurrent
MaxConcurrent == 2

OutDirStates == {"absent", "uncreatable", "writable", "fixable", "unwritable"}

Results == {"success", "skipped", "failed", "raised"}

IdLists == UNION {[1..n -> Accessions] : n \in 0..MaxItems}

inputs_exist_id_list_only(idl, md) == idl

\* the two os.path.exists checks; sys.exit(1) unless both hold
inputs_exist(idl, md) == idl /\ md

\* os.makedirs(args.out_dir, exist_ok=True): the directory afterwards
makedirs(o) == IF o = "absent" THEN "writable" ELSE o

\* fix_directory_permissions: the directory afterwards and the return value
fix_directory_permissions(o) ==
    IF o = "uncreatable" \/ o = "unwritable"
    THEN [out_dir |-> o, ok |-> FALSE]
    ELSE [out_dir |-> "writable", ok |-> TRUE]

count_result_counts_twice(c, r) ==
    IF r = "raised"
    THEN [c EXCEPT !.failed = @ + 1, !.completed = @ + 2]
    ELSE IF r = "success"
    THEN [c EXCEPT !.completed = @ + 1, !.successful = @ + 1]
    ELSE IF r = "skipped"
    THEN [c EXCEPT !.completed = @ + 1, !.skipped = @ + 1]
    ELSE [c EXCEPT !.completed = @ + 1, !.failed = @ + 1]

count_result_drops_raised(c, r) ==
    IF r = "raised" THEN c
    ELSE IF r = "success"
    THEN [c EXCEPT !.completed = @ + 1, !.successful = @ + 1]
    ELSE IF r = "skipped"
    THEN [c EXCEPT !.completed = @ + 1, !.skipped = @ + 1]
    ELSE [c EXCEPT !.completed = @ + 1, !.failed = @ + 1]

\* the body of the as_completed loop for one future: future.result() returns
\* the tag, or raises into the except branch
count_result(c, r) ==
    IF r = "raised"
    THEN [c EXCEPT !.failed = @ + 1, !.completed = @ + 1]
    ELSE IF r = "success"
    THEN [c EXCEPT !.completed = @ + 1, !.successful = @ + 1]
    ELSE IF r = "skipped"
    THEN [c EXCEPT !.completed = @ + 1, !.skipped = @ + 1]
    ELSE [c EXCEPT !.completed = @ + 1, !.failed = @ + 1]

\* display_emoji_progress_bar raises ZeroDivisionError (completed // total)
progress_bar_raises(total) == total = 0

\* an exception leaves main: traceback, exit status 1
Uncaught ==
    /\ mpc' = "exited"
    /\ exit_code' = 1

\* the tasks that occupy a thread of the pool; a "blocked" task is inside a
\* call that never returns
running == {i \in 1..Len(future) : future[i] \in {"running", "blocked"}}

has_free_thread_single(n, cap) == n < 1

has_free_thread_always(n, cap) == TRUE

\* ThreadPoolExecutor(max_workers=cap): a queued task starts only while fewer
\* than cap threads are busy
has_free_thread(n, cap) == n < cap

InitMain ==
    /\ mpc = "start"
    /\ id_list_exists \in BOOLEAN
    /\ metadata_exists \in BOOLEAN
    /\ out_dir \in OutDirStates
    /\ srr_ids \in IF id_list_exists THEN IdLists ELSE {<<>>}
    /\ max_concurrent \in 1..MaxConcurrent
    /\ future = <<>>
    /\ collected = {}
    /\ counters = [successful |-> 0, skipped |-> 0, failed |-> 0, completed |-> 0]
    /\ summary = <<>>
    /\ exit_code = -1
    /\ WorkerIdle
    /\ ValidatorIdle
    /\ ResolverIdle
    /\ ProberIdle
    /\ ToolsIdle

\* "Validate inputs"
ValidateInputs ==
    /\ mpc = "start"
    /\ IF inputs_exist(id_list_exists, metadata_exists)
       THEN mpc' = "setup" /\ exit_code' = exit_code
       ELSE mpc' = "exited" /\ exit_code' = 1
    /\ UNCHANGED <<id_list_exists, metadata_exists, out_dir, srr_ids, max_concurrent,
                   future, collected, counters, summary>>
    /\ UNCHANGED <<wvars, vvars, lvars, pvars, tvars>>

\* os.makedirs, fix_directory_permissions (return value unused), read the IDs
Setup ==
    /\ mpc = "setup"
    /\ IF out_dir = "uncreatable"
       THEN Uncaught /\ out_dir' = out_dir
       ELSE /\ out_dir' = fix_directory_permissions(makedirs(out_dir)).out_dir
            /\ mpc' = "submit"
            /\ exit_code' = exit_code
    /\ UNCHANGED <<id_list_exists, metadata_exists, srr_ids, max_concurrent,
                   future, collected, counters, summary>>
    /\ UNCHANGED <<wvars, vvars, lvars, pvars, tvars>>

\* executor.submit(download_worker, ...) for the next identifier of the list
Submit ==
    /\ mpc = "submit"
    /\ Len(future) < Len(srr_ids)
    /\ future' = Append(future, "pending")
    /\ UNCHANGED <<mpc, id_list_exists, metadata_exists, out_dir, srr_ids,
                   max_concurrent, collected, counters, summary, exit_code>>
    /\ UNCHANGED <<wvars, vvars, lvars, pvars, tvars>>

\* "Initial empty progress bar"
InitialProgress ==
    /\ mpc = "submit"
    /\ Len(future) = Len(srr_ids)
    /\ IF progress_bar_raises(Len(srr_ids))
       THEN Uncaught
       ELSE mpc' = "loop" /\ exit_code' = exit_code
    /\ UNCHANGED <<id_list_exists, metadata_exists, out_dir, srr_ids, max_concurrent,
                   future, collected, counters, summary>>
    /\ UNCHANGED <<wvars, vvars, lvars, pvars, tvars>>

\* a free thread of the executor takes the oldest queued task
StartAt(i) ==
    /\ future[i] = "pending"
    /\ \A j \in 1..(i - 1) : future[j] # "pending"
    /\ has_free_thread(Cardinality(running), max_concurrent)
    /\ future' = [future EXCEPT ![i] = "running"]
    /\ UNCHANGED <<mpc, id_list_exists, metadata_exists, out_dir, srr_ids,
                   max_concurrent, collected, counters, summary, exit_code>>
    /\ UNCHANGED <<wvars, vvars, lvars, pvars, tvars>>

\* download_worker returns its tag or raises
FinishAt(i) ==
    /\ future[i] = "running"
    /\ \E r \in Results : future' = [future EXCEPT ![i] = r]
    /\ UNCHANGED <<mpc, id_list_exists, metadata_exists, out_dir, srr_ids,
                   max_concurrent, collected, counters, summary, exit_code>>
    /\ UNCHANGED <<wvars, vvars, lvars, pvars, tvars>>

\* as_completed yields a finished future; the loop body folds its result
CollectAt(i) ==
    /\ mpc = "loop"
    /\ future[i] \in Results
    /\ i \notin collected
    /\ collected' = collected \cup {i}
    /\ counters' = count_result(counters, future[i])
    /\ UNCHANGED <<mpc, id_list_exists, metadata_exists, out_dir, srr_ids,
                   max_concurrent, future, summary, exit_code>>
    /\ UNCHANGED <<wvars, vvars, lvars, pvars, tvars>>

\* after the loop: the summary is printed and written, then sys.exit
WriteSummary ==
    /\ mpc = "loop"
    /\ collected = 1..Len(srr_ids)
    /\ IF out_dir = "writable"
       THEN /\ summary' = <<Len(srr_ids), counters.successful, counters.skipped,
                            counters.failed>>
            /\ mpc' = "exited"
            /\ exit_code' = IF counters.failed > 0 THEN 1 ELSE 0
       ELSE Uncaught /\ summary' = summary
    /\ UNCHANGED <<id_list_exists, metadata_exists, out_dir, srr_ids, max_concurrent,
                   future, collected, counters>>
    /\ UNCHANGED <<wvars, vvars, lvars, pvars, tvars>>

Start == \E i \in 1..Len(future) : StartAt(i)

Finish == \E i \in 1..Len(future) : FinishAt(i)

Collect == \E i \in 1..Len(future) : CollectAt(i)

NextMain ==
    \/ ValidateInputs
    \/ Setup
    \/ Submit
    \/ InitialProgress
    \/ Start
    \/ Finish
    \/ Collect
    \/ WriteSummary

SpecMain == InitMain /\ [][NextMain]_vars

\* main has exited
Exited == mpc = "exited"

\* the items that ended 'failed': the worker returned "failed" or raised
failed_items == {i \in 1..Len(future) : future[i] \in {"failed", "raised"}}

\* C12: with the ID list and the metadata file present (and a usable output
\* root), the exit status is 1 exactly when some item ended 'failed' or its
\* worker raised, and 0 exactly when every item of the list ended 'skipped'
\* or 'success'.
C12_ExitStatus ==
    (Exited /\ id_list_exists /\ metadata_exists /\ out_dir = "writable") =>
        /\ exit_code = 1 <=> failed_items # {}
        /\ exit_code = 0 <=>
              /\ Len(future) = Len(srr_ids)
              /\ \A i \in 1..Len(srr_ids) : future[i] \in {"skipped", "success"}

\* C13: while the ID list or the metadata file is missing, main changes
\* nothing: no task is submitted, the output root is not created, no summary
\* is written, and its first step is to exit with status 1.
C13_MissingInputIsFatal ==
    [][~(id_list_exists /\ metadata_exists) =>
          /\ future' = <<>>
          /\ out_dir' = out_dir
          /\ summary' = <<>>
          /\ mpc = "start" => (mpc' = "exited" /\ exit_code' = 1)]_vars

\* the metadata file is missing, the output root does not exist: exit status 1
C13_Witness ==
    /\ Exited
    /\ id_list_exists
    /\ ~metadata_exists
    /\ srr_ids # <<>>
    /\ out_dir = "absent"
    /\ exit_code = 1

\* C14: with an output root that cannot be made writable no task is ever
\* submitted and main never reaches the result loop: it exits non-zero first.
C14_UnwritableRootIsFatal ==
    out_dir = "unwritable" =>
        /\ future = <<>>
        /\ mpc # "loop"
        /\ Exited => exit_code > 0

\* C15: every future yielded so far is counted exactly once, a raising
\* worker as failed; and main exits only with every submitted item finished
\* and counted.
C15_RaisingWorkerIsCountedOnce ==
    /\ counters.completed = Cardinality(collected)
    /\ counters.failed = Cardinality(collected \cap failed_items)
    /\ counters.successful =
          Cardinality({i \in collected : future[i] = "success"})
    /\ counters.skipped =
          Cardinality({i \in collected : future[i] = "skipped"})
    /\ (Exited /\ future # <<>>) =>
          /\ collected = 1..Len(srr_ids)
          /\ \A i \in 1..Len(srr_ids) : future[i] \in Results

\* one worker raised, another returned "success": both are counted
C15_Witness ==
    /\ Exited
    /\ \E i, j \in 1..Len(future) : future[i] = "raised" /\ future[j] = "success"
    /\ counters.failed = 1
    /\ counters.successful = 1
    /\ counters.completed = Len(srr_ids)
    /\ summary # <<>>

\* C21: after each update completed = successful + skipped + failed, every
\* list position yielded so far has added exactly one to completed, and when
\* the summary is written completed is the number of identifiers read.
C21_CountersAddUp ==
    /\ counters.completed = counters.successful + counters.skipped + counters.failed
    /\ counters.completed = Cardinality(collected)
    /\ collected \subseteq 1..Len(srr_ids)
    /\ summary # <<>> => counters.completed = Len(srr_ids)

\* a list naming the same identifier twice, both occurrences counted
C21_Witness ==
    /\ summary # <<>>
    /\ Len(srr_ids) >= 2
    /\ srr_ids[1] = srr_ids[2]
    /\ counters.completed = Len(srr_ids)
    /\ counters.failed > 0
    /\ counters.skipped > 0

\* C22: at every moment at most max_concurrent workers are running.
C22_ConcurrencyCap == Cardinality(running) <= max_concurrent

\* the pool is full while a further task waits in the queue
C22_Witness ==
    /\ max_concurrent = MaxConcurrent
    /\ Cardinality(running) = max_concurrent
    /\ \E i \in 1..Len(future) : future[i] = "pending"

\* C23: no two workers running at the same time work on the same identifier
\* (the same item directory), whatever the ID list.
C23_OneWorkerPerItem ==
    \A i, j \in running : i # j => srr_ids[i] # srr_ids[j]

----------------------------------------------------------------------------
\* check_existing_files as a function: one call on one item directory

\* the data files an item directory holds at the call
ProbeNames ==
    {"_1.fastq.gz", "_2.fastq.gz", "_1.fastq", "_2.fastq", ".fastq.gz", ".fastq"}

InitProbe ==
    /\ \E f \in [ProbeNames -> {"absent", "empty", "invalid", "valid"}] :
       \E m \in {"absent", "text"} :
            p_in = [n \in Names |-> IF n \in ProbeNames THEN f[n]
                                    ELSE IF n = MARKER THEN m ELSE "absent"]
    /\ p_paired \in BOOLEAN
    /\ p_disk = p_in
    /\ p_ret = "none"
    /\ WorkerIdle
    /\ ValidatorIdle
    /\ ResolverIdle
    /\ MainIdle
    /\ ToolsIdle

\* one call of check_existing_files(srr_id, out_dir, paired)
ProbeCall ==
    /\ p_ret = "none"
    /\ LET r == check_existing_files(p_in, p_paired)
       IN  /\ p_disk' = r.disk
           /\ p_ret' = IF r.found THEN "True" ELSE "False"
    /\ UNCHANGED <<p_in, p_paired, wvars, vvars, lvars, mvars, tvars>>

NextProbe == ProbeCall

SpecProbe == InitProbe /\ [][NextProbe]_vars

\* the call has returned
Probed == p_ret # "none"

\* C24: an item whose metadata layout is paired ends 'skipped' only if a
\* complete valid pair of one naming convention was on disk at the start of
\* the run.
C24_PairedSkippedOnlyWithPair ==
    (Finished /\ is_paired = "True" /\ outcome = "skipped") => hadValid

\* C25: check_existing_files returns True only if the directory held, at the
\* call, a complete valid file set of the given layout: both files of one
\* paired convention, or one single-end file.
C25_TrueOnlyWithValidSet ==
    (Probed /\ p_ret = "True") => has_valid_set(p_in, p_paired)

\* a paired call without marker, answered True on the second convention
C25_Witness ==
    /\ Probed
    /\ p_ret = "True"
    /\ p_paired
    /\ ~exists(p_in, MARKER)
    /\ p_in["_1.fastq.gz"] # "valid"
    /\ p_in[".fastq.gz"] = "valid"

\* C26: for an item of unknown layout whose directory holds a complete valid
\* pair, the existence probe of download_single_sra recognises the pair and
\* the item is done without a download.
C26_UnknownLayoutFindsPair ==
    [][(pc = "probe" /\ is_paired = "None" /\ has_valid_set(disk, TRUE))
            => pc' = "done"]_vars

\* C27 as stated: after the call the marker exists exactly when the call
\* returned True, and a call on a directory with a marker and a valid file
\* set changes nothing on disk.
C27_StatedMarkerIffTrue ==
    Probed =>
        /\ exists(p_disk, MARKER) <=> p_ret = "True"
        /\ (exists(p_in, MARKER) /\ has_valid_set(p_in, p_paired)) => p_disk = p_in

\* the files of the given layout's conventions that fail validation
rejected(d, paired) ==
    {n \in DataNames :
        /\ d[n] \in {"empty", "invalid"}
        /\ IF paired
           THEN \E i \in 1..Len(file_pairs) : n = file_pairs[i][1] \/ n = file_pairs[i][2]
           ELSE \E i \in 1..Len(single_files) : n = single_files[i]}

\* C27 amended: after the call the marker exists exactly when the call
\* returned True; a call on a directory with a marker and a valid file set
\* keeps the marker and every valid file and at most removes files of the
\* layout's conventions that fail validation; it changes nothing when no
\* such file is present.
C27_AmendedMarkerIffTrue ==
    Probed =>
        /\ exists(p_disk, MARKER) <=> p_ret = "True"
        /\ (exists(p_in, MARKER) /\ has_valid_set(p_in, p_paired)) =>
              /\ \A n \in Names :
                    p_disk[n] # p_in[n] =>
                        (n \in rejected(p_in, p_paired) /\ p_disk[n] = "absent")
              /\ rejected(p_in, p_paired) = {} => p_disk = p_in

\* a marker and a valid pair, with a rejected file of an earlier convention
C27_Witness ==
    /\ Probed
    /\ p_ret = "True"
    /\ exists(p_in, MARKER)
    /\ p_paired
    /\ p_in["_1.fastq.gz"] = "invalid"
    /\ p_disk # p_in

\* C28: after a probe that returned False, no file of a convention of the
\* given layout that the probe validated and found invalid is left: of a
\* pair whose two files are both non-empty every invalid one is gone, and so
\* is every invalid single-end file.
C28_FalseLeavesNoInvalidFile ==
    (Probed /\ p_ret = "False") =>
        IF p_paired
        THEN \A i \in 1..Len(file_pairs) :
                (/\ getsize_positive(p_in, file_pairs[i][1])
                 /\ getsize_positive(p_in, file_pairs[i][2])) =>
                    \A k \in 1..2 :
                        p_in[file_pairs[i][k]] = "invalid" =>
                            ~exists(p_disk, file_pairs[i][k])
        ELSE \A i \in 1..Len(single_files) :
                p_in[single_files[i]] = "invalid" => ~exists(p_disk, single_files[i])

\* C29: a call started with a marker returns the same boolean and leaves the
\* same marker state as a call started on the same files without the marker.
C29_StaleMarkerEqualsNoMarker ==
    (Probed /\ exists(p_in, MARKER)) =>
        LET q == check_existing_files(remove(p_in, MARKER), p_paired)
        IN  /\ (p_ret = "True") = q.found
            /\ exists(p_disk, MARKER) = exists(q.disk, MARKER)

\* a stale marker over an invalid file: False, and the marker is gone
C29_Witness ==
    /\ Probed
    /\ exists(p_in, MARKER)
    /\ ~has_valid_set(p_in, p_paired)
    /\ \E n \in ProbeNames : p_in[n] = "invalid"
    /\ p_ret = "False"
    /\ ~exists(p_disk, MARKER)

----------------------------------------------------------------------------
\* try_download_with_curl: what one URL layout does to the item directory

\* a URL layout of try_download_with_curl is about to be tried
EbiStage == pc \in {"ebi1", "ebi2"} \/ (pc = "ebi3" /\ startswith_ERR(srr_id))

\* C30: a URL layout of the EBI strategy returns True (and the worker is done)
\* only when curl delivered every file the layout requires (two for paired,
\* one otherwise) with exit status 0, each non-empty and valid, and the marker
\* is then on disk; when the URL layout fails, the marker is not written and
\* every file it requested is gone before the next URL layout starts.
C30_EbiTrueOnlyAfterFullDownload ==
    [][EbiStage =>
        LET paired == Truthy(is_paired)
            names == ebi_file_names(paired)
        IN  \A outs \in EbiOuts(paired) :
              LET r == ebi_pattern(disk, paired, outs)
              IN  (r.disk = disk' /\ r.ok = (pc' = "done")) =>
                    IF pc' = "done"
                    THEN /\ Len(outs) = Len(names)
                         /\ \A i \in 1..Len(names) :
                               /\ outs[i] = "valid"
                               /\ getsize_positive(disk', names[i])
                               /\ is_valid_fastq_file(disk', names[i])
                         /\ exists(disk', MARKER)
                    ELSE /\ pc' = next_stage(pc)
                         /\ disk'[MARKER] = disk[MARKER]
                         /\ \A i \in 1..Len(outs) : ~exists(disk', names[i])
    ]_vars

\* a paired item without a valid pair at the start, finished by the EBI strategy
C30_Witness ==
    /\ is_paired = "True"
    /\ ~hadValid
    /\ pc = "done"
    /\ outcome = "success"
    /\ attempts # <<>>
    /\ attempts[Len(attempts)] = "ebi"
    /\ exists(disk, MARKER)
    /\ is_valid_fastq_file(disk, "_1.fastq.gz")
    /\ is_valid_fastq_file(disk, "_2.fastq.gz")

----------------------------------------------------------------------------
\* try_download_with_curl: the order of the URL layouts

\* position of a URL layout inside try_download_with_curl, 0 for other stages
ebi_rank(s) ==
    CASE s = "ebi1" -> 1 [] s = "ebi2" -> 2 [] s = "ebi3" -> 3 [] OTHER -> 0

\* C31: inside one call of the EBI strategy the URL layouts run at most once
\* each, in the order prefix-bucketed, flat, ERA: the first layout is entered
\* only from the direct strategy, each later layout only from the one before
\* it, a layout's step always leaves that layout (no retry), and for an
\* identifier that does not start with "ERR" the ERA layout requests nothing:
\* the directory is untouched and the strategy goes on to the next one.
C31_EbiLayoutsOnceInOrder ==
    [][/\ (ebi_rank(pc') > 0 /\ pc' # pc) =>
            IF pc' = "ebi1" THEN pc = "direct" ELSE ebi_rank(pc) = ebi_rank(pc') - 1
       /\ ebi_rank(pc) > 0 => (pc' # pc /\ ebi_rank(pc') \in {0, ebi_rank(pc) + 1})
       /\ (pc = "ebi3" /\ SubSeq(srr_id, 1, 3) # <<"E", "R", "R">>) =>
            (disk' = disk /\ pc' = "ncbi1")
    ]_vars

\* an ERR item past the EBI strategy: all three layouts were tried, the ERA
\* layout last, and every one failed
C31_Witness ==
    /\ SubSeq(srr_id, 1, 3) = <<"E", "R", "R">>
    /\ pc = "ncbi1"
    /\ attempts = <<"direct", "ebi">>
    /\ outcome = "none"

----------------------------------------------------------------------------
\* download_with_fastq_dump

\* C32: whatever the tool does, the unsplit invocation runs exactly when the
\* split invocation returned non-zero (its files appear in the directory then
\* and only then), and the strategy returns True exactly when the last
\* invocation returned zero and a file ending in .fastq.gz or .fastq is in the
\* item directory afterwards.
C32_DumpSecondRunAndVerdict ==
    pc = "fastq_dump" =>
        \A b \in FastqDumpBehaviours :
            LET r == download_with_fastq_dump(disk, b)
                after1 == Apply(disk, b.out1)
                after == IF b.rc1 # 0 THEN Apply(after1, b.out2) ELSE after1
                last == IF b.rc1 # 0 THEN b.rc2 ELSE b.rc1
            IN  /\ \A f \in DataNames : r.disk[f] = after[f]
                /\ r.ok <=> (last = 0 /\ \E f \in DotFastqGz \cup DotFastq : exists(r.disk, f))

\* an item directory that started empty, finished by the dump strategy with
\* the unsplit invocation's file and no file of the split one
C32_Witness ==
    /\ Finished
    /\ outcome = "success"
    /\ attempts = Chain
    /\ startedClean
    /\ is_valid_fastq_file(disk, ".fastq.gz")
    /\ ~exists(disk, "_1.fastq.gz")
    /\ ~exists(disk, "_2.fastq.gz")
    /\ is_paired = "True"

----------------------------------------------------------------------------
\* download_single_sra: the scratch id list

\* C33: when download_single_sra has returned, on whichever path, the scratch
\* file <id>.id is not in the item directory.
C33_ScratchFileRemoved == Finished => ~exists(disk, TEMP_ID)

\* the external pipeline wrote the scratch file, ran, and the call returned:
\* with the pipeline's own success, or after the last-resort dump tool failed
C33_Witness ==
    /\ Finished
    /\ ~exists(disk, TEMP_ID)
    /\ \/ outcome = "success" /\ attempts = <<"direct", "ebi", "ncbi", "amalgkit">>
       \/ outcome = "failed" /\ attempts = Chain /\ ~provisional

----------------------------------------------------------------------------
\* main with an empty ID list

\* C36: with an ID list that holds no identifier (metadata present, output
\* root usable) the run ends normally: the summary is written with all counts
\* 0 and the exit status is 0.
C36_EmptyListExitsZero ==
    (Exited /\ id_list_exists /\ metadata_exists /\ srr_ids = <<>>
        /\ out_dir = "writable") =>
        /\ summary = <<0, 0, 0, 0>>
        /\ exit_code = 0

----------------------------------------------------------------------------
\* main with workers that may block, and the scheduling of the pool

\* a running worker enters an external call that never returns (the
\* subprocess.run calls of the strategies carry no timeout); one such worker
Block ==
    /\ \E i \in 1..Len(future) :
         /\ future[i] = "running"
         /\ \A j \in 1..Len(future) : future[j] # "blocked"
         /\ future' = [future EXCEPT ![i] = "blocked"]
    /\ UNCHANGED <<mpc, id_list_exists, metadata_exists, out_dir, srr_ids,
                   max_concurrent, collected, counters, summary, exit_code>>
    /\ UNCHANGED <<wvars, vvars, lvars, pvars, tvars>>

NextMainLive == NextMain \/ Block

\* main's own statements run to their end; an idle pool thread takes a queued
\* task; a worker that is not blocked returns; as_completed yields a finished
\* future
FairMain ==
    /\ WF_vars(ValidateInputs)
    /\ WF_vars(Setup)
    /\ WF_vars(Submit)
    /\ WF_vars(InitialProgress)
    /\ WF_vars(Start)
    /\ WF_vars(Finish)
    /\ WF_vars(Collect)
    /\ WF_vars(WriteSummary)

SpecMainLive == InitMain /\ [][NextMainLive]_vars /\ FairMain

\* some worker is blocked forever
some_blocked == \E i \in 1..Len(future) : future[i] = "blocked"

\* C34: unless a worker blocks forever the run ends; an item's terminal
\* outcome, once reached, never changes; the summary record exists only when
\* every item of the list has a terminal outcome and has been counted; and a
\* run that ends with failed items has written the summary record.
C34_TerminatesWithSummary ==
    /\ <>(Exited \/ some_blocked)
    /\ [][\A i \in 1..Len(future) : future[i] \in Results => future'[i] = future[i]]_vars
    /\ [](summary # <<>> =>
            /\ collected = 1..Len(srr_ids)
            /\ \A i \in 1..Len(srr_ids) : future[i] \in Results)
    /\ []((Exited /\ failed_items # {}) => summary # <<>>)

\* C35: once a worker is blocked forever under a concurrency cap of at least
\* 2, every other item of the list is eventually finished by the remaining
\* threads, yielded to main and counted.
C35_BlockedWorkerBlocksOnlyItself ==
    (some_blocked /\ max_concurrent >= 2) ~>
        /\ \A j \in 1..Len(srr_ids) :
              j \in collected \/ (j <= Len(future) /\ future[j] = "blocked")
        /\ counters.completed = Len(srr_ids) - 1

\* the first of three workers is blocked, the two behind it are counted
C35_Witness ==
    /\ max_concurrent >= 2
    /\ Len(srr_ids) = 3
    /\ Len(future) = 3
    /\ future[1] = "blocked"
    /\ collected = {2, 3}
    /\ counters.completed = 2
    /\ mpc = "loop"

----------------------------------------------------------------------------
\* amalgkit sanity (sanity.py) and amalgkit curate (curate.py): the metadata
\* table and the quant output folder

Species == {"sp1", "sp2"}

\* the three files of a quant sub-directory, by their suffix after the run id
QuantFiles == {"_abundance.tsv", "_run_info.json", "_abundance.h5"}

\* the states of <out_dir>/quant/<run>: no directory, or a directory with some
\* of the files; rate is p_pseudoaligned of a run_info.json that is present
SubDirs(rates) ==
    {[dir |-> FALSE, files |-> {}, rate |-> "none"]}
    \cup {[dir |-> TRUE, files |-> F,
           rate |-> IF "_run_info.json" \in F THEN r ELSE "none"] :
            F \in SUBSET QuantFiles, r \in rates}

\* metadata.df.loc[:, c]
column(d, c) == [i \in 1..Len(d) |-> d[i][c]]

\* every element of the sequence counted as seen twice
list_duplicates_all(seq) == {seq[i] : i \in 1..Len(seq)}

\* set(x for x in seq if x in seen or seen_add(x)): x is kept when an earlier
\* position of seq already holds it; the list returned has the set's elements
list_duplicates(seq) ==
    {seq[k] : k \in {i \in 1..Len(seq) : \E j \in 1..(i - 1) : seq[j] = seq[i]}}

parse_metadata(d) ==
    LET species == column(d, "scientific_name")
        uni_species == {species[i] : i \in 1..Len(species)}
        sra_ids == column(d, "run")
        uni_ids == {sra_ids[i] : i \in 1..Len(sra_ids)}
        ValueError(dup) == [raises |-> "ValueError", duplicates |-> dup, sra_ids |-> <<>>]
    IN  IF Cardinality(uni_species) = 0 THEN ValueError({})
        ELSE IF Len(sra_ids) > 0
        THEN IF Len(sra_ids) > Cardinality(uni_ids)
             THEN ValueError(list_duplicates(sra_ids))
             ELSE [raises |-> "none", duplicates |-> {}, sra_ids |-> sra_ids]
        ELSE ValueError({})

\* the loop body of check_quant_output for one run id
quant_verdict(sd) ==
    IF sd.dir
    THEN IF QuantFiles \subseteq sd.files THEN "available"
         ELSE IF "_abundance.tsv" \notin sd.files THEN "warned"
         ELSE IF "_run_info.json" \notin sd.files THEN "warned"
         ELSE IF "_abundance.h5" \notin sd.files THEN "warned"
         ELSE "neither"
    ELSE "unavailable"

check_quant_output(q, ids) ==
    IF q.exists
    THEN [available |-> SelectSeq(ids, LAMBDA a : quant_verdict(q.sub[a]) = "available"),
          unavailable |->
              SelectSeq(ids, LAMBDA a : quant_verdict(q.sub[a]) \in {"warned", "unavailable"})]
    ELSE [available |-> <<>>, unavailable |-> <<>>]

InitSanity ==
    /\ tool_pc = "parse"
    /\ \E n \in 0..MaxRows :
         df \in [1..n -> [scientific_name : Species, run : Accessions,
                          mapping_rate : {"absent"}]]
    /\ \E e \in BOOLEAN : \E f \in [Accessions -> SubDirs({"r1"})] :
         quant_dir = [exists |-> e,
                      sub |-> [a \in Accessions |->
                                 IF e THEN f[a]
                                 ELSE [dir |-> FALSE, files |-> {}, rate |-> "none"]]]
    /\ parsed = [raises |-> "none", duplicates |-> {}, sra_ids |-> <<>>]
    /\ data_available = <<>>
    /\ data_unavailable = <<>>
    /\ outpath = [exists |-> FALSE]
    /\ WorkerIdle
    /\ ValidatorIdle
    /\ ResolverIdle
    /\ MainIdle
    /\ ProberIdle

\* sanity_main: uni_species, sra_ids = parse_metadata(args, metadata)
ParseMetadata ==
    /\ tool_pc = "parse"
    /\ parsed' = parse_metadata(df)
    /\ tool_pc' = IF parsed'.raises = "none" THEN "check" ELSE "raised"
    /\ UNCHANGED <<df, quant_dir, data_available, data_unavailable, outpath>>
    /\ UNCHANGED <<wvars, vvars, lvars, mvars, pvars>>

\* sanity_main with --quant: check_quant_output(args, sra_ids, output_dir)
CheckQuantOutput ==
    /\ tool_pc = "check"
    /\ LET r == check_quant_output(quant_dir, parsed.sra_ids)
       IN  /\ data_available' = r.available
           /\ data_unavailable' = r.unavailable
    /\ tool_pc' = "done"
    /\ UNCHANGED <<df, quant_dir, parsed, outpath>>
    /\ UNCHANGED <<wvars, vvars, lvars, mvars, pvars>>

NextSanity == ParseMetadata \/ CheckQuantOutput

SpecSanity == InitSanity /\ [][NextSanity]_vars

\* the positions of a sequence that hold x
positions(seq, x) == {i \in 1..Len(seq) : seq[i] = x}

\* C37: when check_quant_output has returned, every run id passed in is in
\* exactly one of the two lists, and it is in data_available exactly when the
\* quant folder has a sub-directory for it with all three files; without the
\* quant folder every id is in data_unavailable.
C37_QuantPartition ==
    tool_pc = "done" =>
        \A i \in 1..Len(parsed.sra_ids) :
            LET a == parsed.sra_ids[i]
                complete == /\ quant_dir.exists
                            /\ quant_dir.sub[a].dir
                            /\ QuantFiles \subseteq quant_dir.sub[a].files
            IN  /\ Cardinality(positions(data_available, a))
                     + Cardinality(positions(data_unavailable, a)) = 1
                /\ positions(data_available, a) # {} <=> complete

\* C38: parse_metadata raises ValueError exactly when the table has no
\* species, no run id, or a run id on more than one row; the duplicates it
\* reports, and list_duplicates on any run column, are exactly the ids that
\* occur at least twice.
C38_ParseMetadataRaises ==
    LET ids == column(df, "run")
        twice == {x \in Accessions : Cardinality(positions(ids, x)) >= 2}
        no_species == \A s \in Species : positions(column(df, "scientific_name"), s) = {}
        no_ids == \A x \in Accessions : positions(ids, x) = {}
    IN  /\ list_duplicates(ids) = twice
        /\ tool_pc # "parse" =>
             /\ parsed.raises = "ValueError" <=> (no_species \/ no_ids \/ twice # {})
             /\ (~no_species /\ parsed.raises = "ValueError") => parsed.duplicates = twice
             /\ parsed.raises = "none" => parsed.sra_ids = ids

\* two rows with the same run id: ValueError naming that id
C38_Witness ==
    /\ tool_pc = "raised"
    /\ Len(df) = 2
    /\ df[1].run = df[2].run
    /\ parsed.raises = "ValueError"
    /\ parsed.duplicates = {df[1].run}

----------------------------------------------------------------------------
\* amalgkit curate: write_updated_metadata

\* the mapping_rate column is reset and filled from the run_info.json files
\* of the quant sub-directories named in the run column
get_mapping_rate(d, q) ==
    IF q.exists
    THEN [i \in 1..Len(d) |->
            LET sd == q.sub[d[i].run]
            IN  [d[i] EXCEPT !.mapping_rate =
                    IF sd.dir /\ "_run_info.json" \in sd.files THEN sd.rate ELSE "nan"]]
    ELSE d

\* a write that replaces an existing file
write_updated_metadata_overwrites(d, o, q) ==
    LET m == get_mapping_rate(d, q)
    IN  [df |-> m, outpath |-> [exists |-> TRUE, rows |-> m]]

\* the metadata object and the file at outpath after the call
write_updated_metadata(d, o, q) ==
    IF o.exists THEN [df |-> d, outpath |-> o]
    ELSE LET m == get_mapping_rate(d, q)
         IN  [df |-> m, outpath |-> [exists |-> TRUE, rows |-> m]]

\* curate_main up to the call; outpath may hold the table of an earlier run
InitCurate ==
    /\ tool_pc = "call1"
    /\ \E n \in 0..MaxRows :
         df \in [1..n -> [scientific_name : Species, run : Accessions,
                          mapping_rate : {"absent"}]]
    /\ \E e \in BOOLEAN : \E f \in [Accessions -> SubDirs({"r1", "r2"})] :
         quant_dir = [exists |-> e,
                      sub |-> [a \in Accessions |->
                                 IF e THEN f[a]
                                 ELSE [dir |-> FALSE, files |-> {}, rate |-> "none"]]]
    /\ \E e \in BOOLEAN : outpath = [exists |-> e, rows |-> <<>>]
    /\ parsed = [raises |-> "none"]
    /\ data_available = <<>>
    /\ data_unavailable = <<>>
    /\ WorkerIdle
    /\ ValidatorIdle
    /\ ResolverIdle
    /\ MainIdle
    /\ ProberIdle

\* write_updated_metadata(metadata, new_metadata_path, args), called once and
\* then once more with the same path
WriteUpdatedMetadata ==
    /\ tool_pc \in {"call1", "call2"}
    /\ LET r == write_updated_metadata(df, outpath, quant_dir)
       IN  /\ df' = r.df
           /\ outpath' = r.outpath
    /\ tool_pc' = IF tool_pc = "call1" THEN "call2" ELSE "end"
    /\ UNCHANGED <<quant_dir, parsed, data_available, data_unavailable>>
    /\ UNCHANGED <<wvars, vvars, lvars, mvars, pvars>>

SpecCurate == InitCurate /\ [][WriteUpdatedMetadata]_vars

\* C39: a call of write_updated_metadata with an existing output path leaves
\* the file and the metadata object as they were, and the second of two calls
\* with the same path changes nothing on disk.
C39_NeverOverwrites ==
    [][/\ (tool_pc \in {"call1", "call2"} /\ outpath.exists) =>
            (outpath' = outpath /\ df' = df)
       /\ tool_pc = "call2" => outpath' = outpath
    ]_vars

\* the file of an earlier run survived both calls and the metadata object
\* was not given a mapping_rate column, although run_info.json files exist
C39_Witness ==
    /\ tool_pc = "end"
    /\ outpath = [exists |-> TRUE, rows |-> <<>>]
    /\ Len(df) = 2
    /\ \A i \in 1..Len(df) : df[i].mapping_rate = "absent"
    /\ quant_dir.exists
    /\ \A i \in 1..Len(df) : "_run_info.json" \in quant_dir.sub[df[i].run].files

====
